---- MODULE Spec2Model ----
(***************************************************************************)
(* Model of src/medical_diag.py: a rule-based symptom checker.             *)
(* Strings are sequences of one-character strings, so that strip, lower,   *)
(* replace, split and the lexical comparison used by sorted() are computed *)
(* character by character.                                                 *)
(***************************************************************************)
EXTENDS Integers, Sequences, FiniteSets, TLC

VARIABLES pc, isatty, eof, inp, arg, res, out, reads, calls, demo_i, raw, tok1, tok2

vars == <<pc, isatty, eof, inp, arg, res, out, reads, calls, demo_i, raw, tok1, tok2>>

(* ---------------- bounds of the model ---------------- *)

\* longest symptom list handed directly to diagnose
MaxLen == 3

\* most comma-separated fields in a line typed at the prompt
MaxFields == 2

\* most lines diagnosed in one interactive session
MaxReads == 2

\* longest raw string normalized in the normalization specification
MaxStrLen == 4

(* ---------------- characters and str methods ---------------- *)

UpperCase == <<"A", "B", "C", "D", "E", "F", "G", "H", "I", "J", "K", "L", "M", "N", "O", "P", "Q", "R", "S", "T", "U", "V", "W", "X", "Y", "Z">>

LowerCase == <<"a", "b", "c", "d", "e", "f", "g", "h", "i", "j", "k", "l", "m", "n", "o", "p", "q", "r", "s", "t", "u", "v", "w", "x", "y", "z">>

\* the characters of the model in code point order
CharOrder == <<"\t", " ", ",", "-", "0", "1", "2", "3", "4", "5", "6", "7", "8", "9">> \o UpperCase \o <<"_">> \o LowerCase

\* ord(c), up to an order-preserving renumbering
Ord(c) == CHOOSE i \in 1..Len(CharOrder) : CharOrder[i] = c

\* str.isspace for one character
IsSpace(c) == c \in {" ", "\t"}

\* str.lower for one character
LowerChar(c) == IF \E i \in 1..Len(UpperCase) : UpperCase[i] = c
                THEN LowerCase[CHOOSE i \in 1..Len(UpperCase) : UpperCase[i] = c]
                ELSE c

RECURSIVE LStrip(_)
LStrip(s) == IF s # <<>> /\ IsSpace(s[1]) THEN LStrip(Tail(s)) ELSE s

RECURSIVE RStrip(_)
RStrip(s) == IF s # <<>> /\ IsSpace(s[Len(s)]) THEN RStrip(SubSeq(s, 1, Len(s) - 1)) ELSE s

\* s.strip()
Strip(s) == RStrip(LStrip(s))

RECURSIVE Lower(_)
\* s.lower()
Lower(s) == IF s = <<>> THEN <<>> ELSE <<LowerChar(s[1])>> \o Lower(Tail(s))

RECURSIVE Replace(_, _, _)
\* s.replace(old, new) for one-character old and new
Replace(s, old, new) ==
    IF s = <<>> THEN <<>>
    ELSE <<IF s[1] = old THEN new ELSE s[1]>> \o Replace(Tail(s), old, new)

RECURSIVE Split(_, _)
\* s.split(sep) for a one-character sep
Split(s, sep) ==
    IF \A i \in 1..Len(s) : s[i] # sep THEN <<s>>
    ELSE LET k == CHOOSE i \in 1..Len(s) : s[i] = sep /\ \A j \in 1..(i - 1) : s[j] # sep
         IN  <<SubSeq(s, 1, k - 1)>> \o Split(SubSeq(s, k + 1, Len(s)), sep)

RECURSIVE StrLess(_, _)
\* a < b on str: lexical by code point
StrLess(a, b) ==
    IF a = <<>> THEN b # <<>>
    ELSE IF b = <<>> THEN FALSE
    ELSE IF a[1] = b[1] THEN StrLess(Tail(a), Tail(b))
    ELSE Ord(a[1]) < Ord(b[1])

\* x < y on (int, str) tuples
TupleLess(x, y) == x[1] < y[1] \/ (x[1] = y[1] /\ StrLess(x[2], y[2]))

(* ---------------- knowledge base ---------------- *)

DISEASE_RULES == <<
    [dis |-> <<"f", "l", "u">>, rules |-> {<<"f", "e", "v", "e", "r">>, <<"c", "o", "u", "g", "h">>, <<"b", "o", "d", "y", "_", "a", "c", "h", "e">>, <<"f", "a", "t", "i", "g", "u", "e">>}],
    [dis |-> <<"c", "o", "m", "m", "o", "n", " ", "c", "o", "l", "d">>, rules |-> {<<"c", "o", "u", "g", "h">>, <<"s", "o", "r", "e", "_", "t", "h", "r", "o", "a", "t">>, <<"r", "u", "n", "n", "y", "_", "n", "o", "s", "e">>}],
    [dis |-> <<"a", "s", "t", "h", "m", "a">>, rules |-> {<<"s", "h", "o", "r", "t", "n", "e", "s", "s", "_", "b", "r", "e", "a", "t", "h">>, <<"w", "h", "e", "e", "z", "i", "n", "g">>, <<"c", "o", "u", "g", "h">>}],
    [dis |-> <<"c", "o", "v", "i", "d", "-", "1", "9">>, rules |-> {<<"f", "e", "v", "e", "r">>, <<"l", "o", "s", "s", "_", "s", "m", "e", "l", "l">>, <<"c", "o", "u", "g", "h">>, <<"s", "o", "r", "e", "_", "t", "h", "r", "o", "a", "t">>}],
    [dis |-> <<"p", "n", "e", "u", "m", "o", "n", "i", "a">>, rules |-> {<<"f", "e", "v", "e", "r">>, <<"c", "o", "u", "g", "h">>, <<"s", "h", "o", "r", "t", "n", "e", "s", "s", "_", "b", "r", "e", "a", "t", "h">>, <<"c", "h", "e", "s", "t", "_", "p", "a", "i", "n">>}],
    [dis |-> <<"m", "i", "g", "r", "a", "i", "n", "e">>, rules |-> {<<"h", "e", "a", "d", "a", "c", "h", "e">>, <<"b", "l", "u", "r", "r", "e", "d", "_", "v", "i", "s", "i", "o", "n">>, <<"n", "a", "u", "s", "e", "a">>}],
    [dis |-> <<"d", "i", "a", "b", "e", "t", "e", "s">>, rules |-> {<<"f", "a", "t", "i", "g", "u", "e">>, <<"t", "h", "i", "r", "s", "t">>, <<"f", "r", "e", "q", "u", "e", "n", "t", "_", "u", "r", "i", "n", "a", "t", "i", "o", "n">>, <<"b", "l", "u", "r", "r", "e", "d", "_", "v", "i", "s", "i", "o", "n">>}],
    [dis |-> <<"h", "y", "p", "e", "r", "t", "e", "n", "s", "i", "o", "n">>, rules |-> {<<"h", "e", "a", "d", "a", "c", "h", "e">>, <<"d", "i", "z", "z", "i", "n", "e", "s", "s">>, <<"b", "l", "u", "r", "r", "e", "d", "_", "v", "i", "s", "i", "o", "n">>}],
    [dis |-> <<"a", "r", "t", "h", "r", "i", "t", "i", "s">>, rules |-> {<<"j", "o", "i", "n", "t", "_", "p", "a", "i", "n">>, <<"s", "t", "i", "f", "f", "n", "e", "s", "s">>, <<"s", "w", "e", "l", "l", "i", "n", "g">>}],
    [dis |-> <<"a", "p", "p", "e", "n", "d", "i", "c", "i", "t", "i", "s">>, rules |-> {<<"a", "b", "d", "o", "m", "i", "n", "a", "l", "_", "p", "a", "i", "n">>, <<"v", "o", "m", "i", "t", "i", "n", "g">>, <<"l", "o", "s", "s", "_", "a", "p", "p", "e", "t", "i", "t", "e">>, <<"f", "e", "v", "e", "r">>}],
    [dis |-> <<"t", "u", "b", "e", "r", "c", "u", "l", "o", "s", "i", "s">>, rules |-> {<<"c", "h", "r", "o", "n", "i", "c", "_", "c", "o", "u", "g", "h">>, <<"w", "e", "i", "g", "h", "t", "_", "l", "o", "s", "s">>, <<"n", "i", "g", "h", "t", "_", "s", "w", "e", "a", "t", "s">>, <<"c", "h", "e", "s", "t", "_", "p", "a", "i", "n">>}],
    [dis |-> <<"d", "e", "p", "r", "e", "s", "s", "i", "o", "n">>, rules |-> {<<"f", "a", "t", "i", "g", "u", "e">>, <<"l", "o", "s", "s", "_", "i", "n", "t", "e", "r", "e", "s", "t">>, <<"s", "a", "d", "n", "e", "s", "s">>, <<"s", "l", "e", "e", "p", "_", "d", "i", "s", "t", "u", "r", "b", "a", "n", "c", "e">>}],
    [dis |-> <<"c", "o", "n", "j", "u", "n", "c", "t", "i", "v", "i", "t", "i", "s">>, rules |-> {<<"r", "e", "d", "_", "e", "y", "e", "s">>, <<"i", "t", "c", "h", "y", "_", "e", "y", "e", "s">>, <<"e", "y", "e", "_", "d", "i", "s", "c", "h", "a", "r", "g", "e">>}],
    [dis |-> <<"f", "o", "o", "d", "_", "p", "o", "i", "s", "o", "n", "i", "n", "g">>, rules |-> {<<"v", "o", "m", "i", "t", "i", "n", "g">>, <<"d", "i", "a", "r", "r", "h", "e", "a">>, <<"n", "a", "u", "s", "e", "a">>, <<"a", "b", "d", "o", "m", "i", "n", "a", "l", "_", "p", "a", "i", "n">>}] >>

DISEASE_TO_SPECIALIST == <<
    [dis |-> <<"f", "l", "u">>, spec |-> "General Physician"],
    [dis |-> <<"c", "o", "m", "m", "o", "n", " ", "c", "o", "l", "d">>, spec |-> "General Physician"],
    [dis |-> <<"d", "i", "a", "b", "e", "t", "e", "s">>, spec |-> "Endocrinologist"],
    [dis |-> <<"h", "y", "p", "e", "r", "t", "e", "n", "s", "i", "o", "n">>, spec |-> "Cardiologist"],
    [dis |-> <<"a", "s", "t", "h", "m", "a">>, spec |-> "Pulmonologist"],
    [dis |-> <<"p", "n", "e", "u", "m", "o", "n", "i", "a">>, spec |-> "Pulmonologist"],
    [dis |-> <<"m", "i", "g", "r", "a", "i", "n", "e">>, spec |-> "Neurologist"],
    [dis |-> <<"a", "r", "t", "h", "r", "i", "t", "i", "s">>, spec |-> "Rheumatologist"],
    [dis |-> <<"c", "o", "v", "i", "d", "-", "1", "9">>, spec |-> "Infectious Disease Specialist"],
    [dis |-> <<"a", "p", "p", "e", "n", "d", "i", "c", "i", "t", "i", "s">>, spec |-> "General Surgeon"],
    [dis |-> <<"t", "u", "b", "e", "r", "c", "u", "l", "o", "s", "i", "s">>, spec |-> "Pulmonologist"],
    [dis |-> <<"d", "e", "p", "r", "e", "s", "s", "i", "o", "n">>, spec |-> "Psychiatrist"],
    [dis |-> <<"c", "o", "n", "j", "u", "n", "c", "t", "i", "v", "i", "t", "i", "s">>, spec |-> "Ophthalmologist"],
    [dis |-> <<"f", "o", "o", "d", "_", "p", "o", "i", "s", "o", "n", "i", "n", "g">>, spec |-> "Gastroenterologist"] >>

\* DISEASE_TO_SPECIALIST.get(disease, "Consult specialist")
Specialist(disease) ==
    IF \E i \in 1..Len(DISEASE_TO_SPECIALIST) : DISEASE_TO_SPECIALIST[i].dis = disease
    THEN DISEASE_TO_SPECIALIST[CHOOSE i \in 1..Len(DISEASE_TO_SPECIALIST) :
                                   DISEASE_TO_SPECIALIST[i].dis = disease].spec
    ELSE "Consult specialist"

(* ---------------- diagnose ---------------- *)

\* the number of results kept by the slice [:3]
TopN == 3

\* the normalization without the connector: spaces are kept
NormalizeNoReplace(s) == Lower(Strip(s))

\* the normalization with the arguments of replace exchanged
NormalizeSwapped(s) == Replace(Lower(Strip(s)), "_", " ")

\* s.strip().lower().replace(" ", "_")
Normalize(s) == Replace(Lower(Strip(s)), " ", "_")

\* {normalize(s) for s in symptoms if s.strip()}
NormTokens(symptoms) ==
    {Normalize(symptoms[i]) : i \in {j \in 1..Len(symptoms) : Strip(symptoms[j]) # <<>>}}

RECURSIVE ScoresFromLenInput(_, _)
\* the scan scoring a matching disease by len(sset) instead of len(sset & rules)
ScoresFromLenInput(sset, i) ==
    IF i > Len(DISEASE_RULES) THEN <<>>
    ELSE LET n == Cardinality(sset \cap DISEASE_RULES[i].rules)
         IN  (IF n > 0 THEN <<(<<Cardinality(sset), DISEASE_RULES[i].dis>>)>> ELSE <<>>)
             \o ScoresFromLenInput(sset, i + 1)

RECURSIVE ScoresFrom(_, _)
ScoresFrom(sset, i) ==
    IF i > Len(DISEASE_RULES) THEN <<>>
    ELSE LET n == Cardinality(sset \cap DISEASE_RULES[i].rules)
         IN  (IF n > 0 THEN <<(<<n, DISEASE_RULES[i].dis>>)>> ELSE <<>>) \o ScoresFrom(sset, i + 1)

\* [(len(sset & rules), dis) for dis, rules in DISEASE_RULES.items() if len(sset & rules) > 0]
Scores(sset) == ScoresFrom(sset, 1)

\* insertion of x into a descending list, after the elements that are not smaller
InsertDesc(x, t) ==
    LET k == Cardinality({i \in 1..Len(t) : ~TupleLess(t[i], x)})
    IN  SubSeq(t, 1, k) \o <<x>> \o SubSeq(t, k + 1, Len(t))

\* insertion of x into an ascending list, after the elements that are not larger
InsertAsc(x, t) ==
    LET k == Cardinality({i \in 1..Len(t) : ~TupleLess(x, t[i])})
    IN  SubSeq(t, 1, k) \o <<x>> \o SubSeq(t, k + 1, Len(t))

RECURSIVE SortedAscending(_)
\* sorted(scores) without reverse=True
SortedAscending(scores) ==
    IF scores = <<>> THEN <<>>
    ELSE InsertAsc(scores[Len(scores)], SortedAscending(SubSeq(scores, 1, Len(scores) - 1)))

RECURSIVE SortedReverse(_)
\* sorted(scores, reverse=True): stable, descending on the whole tuple
SortedReverse(scores) ==
    IF scores = <<>> THEN <<>>
    ELSE InsertDesc(scores[Len(scores)], SortedReverse(SubSeq(scores, 1, Len(scores) - 1)))

\* the slice taken one element too long
TakeOneMore(lst, n) == SubSeq(lst, 1, IF Len(lst) < n + 1 THEN Len(lst) ELSE n + 1)

\* lst[:n]
Take(lst, n) == SubSeq(lst, 1, IF Len(lst) < n THEN Len(lst) ELSE n)

EmptySymptomSet == "No symptoms entered."

NoMatch == "No matching disease found."

\* one printed result line: disease, match count, specialist
ResultLine(t) == [disease |-> t[2], matches |-> t[1], spec |-> Specialist(t[2])]

RECURSIVE ResultLines(_)
ResultLines(top) ==
    IF top = <<>> THEN <<>> ELSE <<ResultLine(top[1])>> \o ResultLines(Tail(top))

\* diagnose without the test for an empty token set
diagnoseNoEmptyTest(symptoms) ==
    LET sset == NormTokens(symptoms)
        scores == Scores(sset)
    IN  IF scores = <<>>
        THEN [signal |-> NoMatch, results |-> <<>>, lines |-> <<NoMatch>>]
        ELSE LET top == Take(SortedReverse(scores), TopN)
             IN  [signal |-> "", results |-> ResultLines(top),
                  lines |-> <<"Likely diagnoses:", "rule">>
                            \o [i \in 1..Len(top) |-> "result"]]

\* diagnose(symptoms): the signal printed ("" when none), the results printed,
\* and the kinds of the lines written to stdout
diagnose(symptoms) ==
    LET sset == NormTokens(symptoms)
    IN  IF sset = {}
        THEN [signal |-> EmptySymptomSet, results |-> <<>>, lines |-> <<EmptySymptomSet>>]
        ELSE LET scores == Scores(sset)
             IN  IF scores = <<>>
                 THEN [signal |-> NoMatch, results |-> <<>>, lines |-> <<NoMatch>>]
                 ELSE LET top == Take(SortedReverse(scores), TopN)
                      IN  [signal |-> "", results |-> ResultLines(top),
                           lines |-> <<"Likely diagnoses:", "rule">>
                                     \o [i \in 1..Len(top) |-> "result"]]

NoResult == [signal |-> "", results |-> <<>>, lines |-> <<>>]

(* ---------------- inputs ---------------- *)

RECURSIVE SeqsUpTo(_, _)
\* the sequences over S of length 0..n
SeqsUpTo(S, n) ==
    IF n = 0 THEN {<<>>}
    ELSE LET shorter == SeqsUpTo(S, n - 1)
         IN  shorter \cup {Append(t, x) : t \in {u \in shorter : Len(u) = n - 1}, x \in S}

\* raw symptom phrases handed to diagnose
RawPool == {<<"f", "e", "v", "e", "r">>, <<"c", "o", "u", "g", "h">>, <<" ", "C", "o", "u", "g", "h", " ">>, <<"h", "e", "a", "d", "a", "c", "h", "e">>, <<"b", "l", "u", "r", "r", "e", "d", " ", "v", "i", "s", "i", "o", "n">>, <<"f", "a", "t", "i", "g", "u", "e">>,
            <<"c", "h", "e", "s", "t", " ", "p", "a", "i", "n">>, <<"N", "A", "U", "S", "E", "A">>, <<"x", "y", "z">>, <<>>, <<" ">>, <<",">>}

SymptomLists == SeqsUpTo(RawPool, MaxLen)

(* ---------------- diagnose called on its own ---------------- *)

InitDiagnose ==
    /\ pc = "call"
    /\ arg \in SymptomLists
    /\ res = NoResult
    /\ isatty = FALSE /\ eof = FALSE /\ inp = <<>> /\ out = <<>>
    /\ reads = 0 /\ calls = 0 /\ demo_i = 0
    /\ raw = <<>> /\ tok1 = {} /\ tok2 = {}

DiagnoseCall ==
    /\ pc = "call"
    /\ res' = diagnose(arg)
    /\ out' = res'.lines
    /\ calls' = calls + 1
    /\ pc' = "returned"
    /\ UNCHANGED <<isatty, eof, inp, arg, reads, demo_i, raw, tok1, tok2>>

NextDiagnose == DiagnoseCall

SpecDiagnose == InitDiagnose /\ [][NextDiagnose]_vars

(* ---------------- properties of diagnose ---------------- *)

Returned == pc = "returned"

\* position of a disease in the DISEASE_RULES literal
DeclIndex(d) == CHOOSE i \in 1..Len(DISEASE_RULES) : DISEASE_RULES[i].dis = d

\* t is the token of some non-blank entry of symptoms
TokenEntered(t, symptoms) ==
    \E i \in 1..Len(symptoms) :
        /\ Strip(symptoms[i]) # <<>>
        /\ Replace(Lower(Strip(symptoms[i])), " ", "_") = t

\* size of the intersection of the entered tokens with the i-th disease's symptom set
MatchCount(i, symptoms) ==
    Cardinality({t \in DISEASE_RULES[i].rules : TokenEntered(t, symptoms)})

\* the diseases listed in the results
Listed == {res.results[i].disease : i \in 1..Len(res.results)}

\* the results as (disease, matchCount) pairs in order
Pairs == [i \in 1..Len(res.results) |-> <<res.results[i].disease, res.results[i].matches>>]

\* C1: diseases with the same matchCount appear in the results in Knowledge
\* Base declaration order, the top-3 cut is taken after that ordering, and for
\* ["fever", "cough"] the results are flu, covid-19, pneumonia with matchCount 2.
C1_TiesInDeclarationOrder ==
    Returned =>
        /\ \A i, j \in 1..Len(res.results) :
               (i < j /\ res.results[i].matches = res.results[j].matches)
                   => DeclIndex(res.results[i].disease) < DeclIndex(res.results[j].disease)
        /\ \A i \in 1..Len(res.results), k \in 1..Len(DISEASE_RULES) :
               (DISEASE_RULES[k].dis \notin Listed
                    /\ MatchCount(k, arg) = res.results[i].matches)
                   => DeclIndex(res.results[i].disease) < k
        /\ arg = << <<"f", "e", "v", "e", "r">>, <<"c", "o", "u", "g", "h">> >>
               => Pairs = << <<<<"f", "l", "u">>, 2>>, <<<<"c", "o", "v", "i", "d", "-", "1", "9">>, 2>>, <<<<"p", "n", "e", "u", "m", "o", "n", "i", "a">>, 2>> >>

\* C2: every result carries a matchCount equal to the size of the intersection
\* of the normalized input tokens with that disease's symptom set.
C2_ScoreCorrect ==
    Returned =>
        \A i \in 1..Len(res.results) :
            res.results[i].matches = MatchCount(DeclIndex(res.results[i].disease), arg)

\* a duplicate token is counted once: "cough" and " Cough " with "fever" give flu 2
C2_Witness ==
    /\ Returned
    /\ arg = << <<"c", "o", "u", "g", "h">>, <<" ", "C", "o", "u", "g", "h", " ">>, <<"f", "e", "v", "e", "r">> >>
    /\ \E i \in 1..Len(res.results) :
           res.results[i].disease = <<"f", "l", "u">> /\ res.results[i].matches = 2

\* C3 (as amended): for ["headache", "blurred vision"] the candidates are
\* migraine with matchCount 2, hypertension with matchCount 2 and diabetes with
\* matchCount 1, and migraine is the first result, followed by hypertension.
C3_HeadacheBlurredVision ==
    (Returned /\ arg = << <<"h", "e", "a", "d", "a", "c", "h", "e">>, <<"b", "l", "u", "r", "r", "e", "d", " ", "v", "i", "s", "i", "o", "n">> >>)
        => Pairs = << <<<<"m", "i", "g", "r", "a", "i", "n", "e">>, 2>>, <<<<"h", "y", "p", "e", "r", "t", "e", "n", "s", "i", "o", "n">>, 2>>, <<<<"d", "i", "a", "b", "e", "t", "e", "s">>, 1>> >>

C3_Witness ==
    /\ Returned
    /\ arg = << <<"h", "e", "a", "d", "a", "c", "h", "e">>, <<"b", "l", "u", "r", "r", "e", "d", " ", "v", "i", "s", "i", "o", "n">> >>
    /\ Len(res.results) = 3
    /\ res.results[1].matches = 2

\* C3 (as stated): migraine has matchCount 1, hypertension 2, diabetes 1, and
\* hypertension is the first result with matchCount 2.
C3_Original ==
    (Returned /\ arg = << <<"h", "e", "a", "d", "a", "c", "h", "e">>, <<"b", "l", "u", "r", "r", "e", "d", " ", "v", "i", "s", "i", "o", "n">> >>)
        => /\ {Pairs[i] : i \in 1..Len(Pairs)}
                  = { <<<<"m", "i", "g", "r", "a", "i", "n", "e">>, 1>>, <<<<"h", "y", "p", "e", "r", "t", "e", "n", "s", "i", "o", "n">>, 2>>, <<<<"d", "i", "a", "b", "e", "t", "e", "s">>, 1>> }
           /\ Pairs[1] = <<<<"h", "y", "p", "e", "r", "t", "e", "n", "s", "i", "o", "n">>, 2>>

\* C4: diagnose returns at most 3 results and never a disease whose matchCount is 0.
C4_ResultBound ==
    Returned =>
        /\ Len(res.results) <= 3
        /\ \A i \in 1..Len(res.results) :
               /\ res.results[i].matches # 0
               /\ MatchCount(DeclIndex(res.results[i].disease), arg) # 0

\* more than three diseases match and exactly three are returned
C4_Witness ==
    /\ Returned
    /\ Len(res.results) = 3
    /\ Cardinality({k \in 1..Len(DISEASE_RULES) : MatchCount(k, arg) > 0}) > 3
    /\ Cardinality({k \in 1..Len(DISEASE_RULES) : MatchCount(k, arg) = 0}) > 0

\* C5: the results are non-increasing in matchCount, and no disease left out
\* has a larger matchCount than a disease that is included.
C5_NonIncreasing ==
    Returned =>
        /\ \A i, j \in 1..Len(res.results) :
               i < j => res.results[i].matches >= res.results[j].matches
        /\ res.signal = "" =>
               \A i \in 1..Len(res.results), k \in 1..Len(DISEASE_RULES) :
                   DISEASE_RULES[k].dis \notin Listed
                       => MatchCount(k, arg) <= res.results[i].matches

\* three results with different scores, and a matching disease left out
C5_Witness ==
    /\ Returned
    /\ Len(res.results) = 3
    /\ res.results[1].matches > res.results[2].matches
    /\ res.results[2].matches > res.results[3].matches
    /\ \E k \in 1..Len(DISEASE_RULES) :
           DISEASE_RULES[k].dis \notin Listed /\ MatchCount(k, arg) > 0

\* every entry of symptoms is blank after trim
NoTokens(symptoms) == \A i \in 1..Len(symptoms) : Strip(symptoms[i]) = <<>>

OnlyEmptySymptomSet ==
    /\ res.signal = "No symptoms entered."
    /\ res.results = <<>>
    /\ res.lines = <<"No symptoms entered.">>

\* C6 (as amended): when normalization yields no tokens, diagnose emits
\* EmptySymptomSet, not NoMatch, and produces zero results; this holds for [""]
\* and [" ", " "], while [" ", ","] yields the token "," and so NoMatch with
\* zero results.
C6_EmptySymptomSet ==
    Returned =>
        /\ NoTokens(arg) => OnlyEmptySymptomSet
        /\ arg \in { << <<>> >>, << <<" ">>, <<" ">> >> } => OnlyEmptySymptomSet
        /\ arg = << <<" ">>, <<",">> >>
               => /\ res.signal = "No matching disease found."
                  /\ res.results = <<>>

C6_Witness ==
    /\ Returned
    /\ arg = << <<" ">>, <<" ">> >>
    /\ res.signal = "No symptoms entered."

\* C6 (as stated): the same, with [" ", ","] among the inputs that yield no tokens.
C6_Original ==
    Returned =>
        /\ NoTokens(arg) => OnlyEmptySymptomSet
        /\ arg \in { << <<>> >>, << <<" ">>, <<",">> >> } => OnlyEmptySymptomSet

(* ---------------- normalization applied twice ---------------- *)

\* characters of the raw strings normalized on their own
NormAlphabet == {" ", "\t", "A", "a", "_", ","}

RawStrings == SeqsUpTo(NormAlphabet, MaxStrLen)

InitNorm ==
    /\ pc = "raw"
    /\ raw \in RawStrings
    /\ tok1 = {} /\ tok2 = {}
    /\ arg = <<>> /\ res = NoResult
    /\ isatty = FALSE /\ eof = FALSE /\ inp = <<>> /\ out = <<>>
    /\ reads = 0 /\ calls = 0 /\ demo_i = 0

\* the set comprehension of diagnose on the one-element list [raw]
NormFirst ==
    /\ pc = "raw"
    /\ tok1' = NormTokens(<<raw>>)
    /\ pc' = "tok1"
    /\ UNCHANGED <<isatty, eof, inp, arg, res, out, reads, calls, demo_i, raw, tok2>>

\* the same comprehension on the token it produced
NormSecond ==
    /\ pc = "tok1"
    /\ tok1 # {}
    /\ tok2' = UNION {NormTokens(<<t>>) : t \in tok1}
    /\ pc' = "tok2"
    /\ UNCHANGED <<isatty, eof, inp, arg, res, out, reads, calls, demo_i, raw, tok1>>

NextNorm == NormFirst \/ NormSecond

SpecNorm == InitNorm /\ [][NextNorm]_vars

\* C10: token normalization is idempotent: for every raw string that is
\* non-blank after trim, normalizing the normalized token yields the same token.
C10_NormalizeIdempotent ==
    pc = "tok2" => (Cardinality(tok1) = 1 /\ tok2 = tok1)

\* a raw string with an outer blank, an upper-case letter and an inner space
C10_Witness ==
    /\ pc = "tok2"
    /\ raw = <<" ", "A", " ", "a">>
    /\ tok1 = {<<"a", "_", "a">>}
    /\ tok2 = {<<"a", "_", "a">>}

(* ---------------- the session driver ---------------- *)

RECURSIVE Join(_, _)
\* sep.join(parts)
Join(parts, sep) ==
    IF parts = <<>> THEN <<>>
    ELSE IF Len(parts) = 1 THEN parts[1]
    ELSE parts[1] \o <<sep>> \o Join(Tail(parts), sep)

\* comma-free fields of the lines typed at the prompt
LinePool == {<<"f", "e", "v", "e", "r">>, <<>>, <<" ", "e", "x", "i", "t">>, <<"q">>, <<"E", "X", "I", "T">>, <<"Q", "u", "i", "t">>}

\* the lines input() can return
Lines == {Join(f, ",") : f \in SeqsUpTo(LinePool, MaxFields) \ {<<>>}}

\* the canned cases of demo()
tests == <<
    << <<"f", "e", "v", "e", "r">>, <<"c", "o", "u", "g", "h">> >>,
    << <<"h", "e", "a", "d", "a", "c", "h", "e">>, <<"b", "l", "u", "r", "r", "e", "d", " ", "v", "i", "s", "i", "o", "n">> >>,
    << <<"s", "h", "o", "r", "t", "n", "e", "s", "s", " ", "b", "r", "e", "a", "t", "h">>, <<"w", "h", "e", "e", "z", "i", "n", "g">> >>,
    << <<"a", "b", "d", "o", "m", "i", "n", "a", "l", " ", "p", "a", "i", "n">>, <<"v", "o", "m", "i", "t", "i", "n", "g">> >>,
    << <<"l", "o", "s", "s", "_", "i", "n", "t", "e", "r", "e", "s", "t">>, <<"f", "a", "t", "i", "g", "u", "e">> >>,
    << <<"c", "h", "r", "o", "n", "i", "c", " ", "c", "o", "u", "g", "h">>, <<"w", "e", "i", "g", "h", "t", " ", "l", "o", "s", "s">> >>,
    << <<"r", "e", "d", " ", "e", "y", "e", "s">>, <<"i", "t", "c", "h", "y", " ", "e", "y", "e", "s">> >> >>

\* the lines printed by banner()
banner == <<"AI MEDICAL DIAGNOSIS", "Rule-based symptom checker">>

Instructions == "Enter symptoms separated by commas (type 'exit' to quit)."

Prompt == "Symptoms> "

Goodbye == "Goodbye!"

DemoLabel == "Demo: "

ClosingLines == <<"This is an AI-based suggestion only.",
                  "Please consult a certified doctor in real life.",
                  "Thank you for using the system. Stay healthy!">>

Init ==
    /\ pc = "main"
    /\ isatty \in BOOLEAN
    /\ eof = FALSE
    /\ inp = <<>>
    /\ arg = <<>>
    /\ res = NoResult
    /\ out = <<>>
    /\ reads = 0 /\ calls = 0 /\ demo_i = 0
    /\ raw = <<>> /\ tok1 = {} /\ tok2 = {}

\* main() with the terminal test inverted
MainStartInverted ==
    /\ pc = "main"
    /\ IF ~isatty
       THEN /\ out' = <<"Available symptoms:", "ALL_SYMPTOMS">> \o banner \o <<Instructions, Prompt>>
            /\ pc' = "interactive"
       ELSE /\ out' = <<"Available symptoms:", "ALL_SYMPTOMS">> \o banner
            /\ pc' = "demo"
    /\ UNCHANGED <<isatty, eof, inp, arg, res, reads, calls, demo_i, raw, tok1, tok2>>

\* main() up to the first input() of interactive(), or up to the loop of demo()
MainStart ==
    /\ pc = "main"
    /\ IF isatty
       THEN /\ out' = <<"Available symptoms:", "ALL_SYMPTOMS">> \o banner \o <<Instructions, Prompt>>
            /\ pc' = "interactive"
       ELSE /\ out' = <<"Available symptoms:", "ALL_SYMPTOMS">> \o banner
            /\ pc' = "demo"
    /\ UNCHANGED <<isatty, eof, inp, arg, res, reads, calls, demo_i, raw, tok1, tok2>>

\* the exit test without lower()
IsExitCaseSensitive(line) == line \in {<<"e", "x", "i", "t">>, <<"q", "u", "i", "t">>, <<"q">>}

\* inp.lower() in {"exit", "quit", "q"}
IsExit(line) == Lower(line) \in {<<"e", "x", "i", "t">>, <<"q", "u", "i", "t">>, <<"q">>}

\* the loop pass leaving the loop when diagnose printed a signal
InteractiveLineStopOnSignal(line) ==
    /\ inp' = line
    /\ reads' = reads + 1
    /\ IF IsExit(line)
       THEN /\ out' = Append(out, Goodbye)
            /\ pc' = "closing"
            /\ UNCHANGED <<arg, res, calls>>
       ELSE /\ arg' = Split(line, ",")
            /\ res' = diagnose(arg')
            /\ calls' = calls + 1
            /\ IF res'.signal # ""
               THEN /\ out' = out \o res'.lines \o <<Goodbye>>
                    /\ pc' = "closing"
               ELSE /\ out' = out \o res'.lines \o <<Prompt>>
                    /\ pc' = "interactive"
    /\ UNCHANGED <<isatty, eof, demo_i, raw, tok1, tok2>>

\* one pass of the loop of interactive() for the line that input() returned
InteractiveLine(line) ==
    /\ inp' = line
    /\ reads' = reads + 1
    /\ IF IsExit(line)
       THEN /\ out' = Append(out, Goodbye)
            /\ pc' = "closing"
            /\ UNCHANGED <<arg, res, calls>>
       ELSE /\ arg' = Split(line, ",")
            /\ res' = diagnose(arg')
            /\ calls' = calls + 1
            /\ out' = out \o res'.lines \o <<Prompt>>
            /\ pc' = "interactive"
    /\ UNCHANGED <<isatty, eof, demo_i, raw, tok1, tok2>>

InteractiveExit ==
    /\ pc = "interactive"
    /\ \E line \in Lines : IsExit(line) /\ InteractiveLine(line)

InteractiveDiagnose ==
    /\ pc = "interactive"
    /\ calls < MaxReads
    /\ \E line \in Lines : ~IsExit(line) /\ InteractiveLine(line)

\* input() raises EOFError
InteractiveEOF ==
    /\ pc = "interactive"
    /\ eof' = TRUE
    /\ out' = Append(out, Goodbye)
    /\ pc' = "closing"
    /\ UNCHANGED <<isatty, inp, arg, res, reads, calls, demo_i, raw, tok1, tok2>>

\* one pass of the loop of demo()
DemoStep ==
    /\ pc = "demo"
    /\ demo_i < Len(tests)
    /\ demo_i' = demo_i + 1
    /\ arg' = tests[demo_i']
    /\ res' = diagnose(arg')
    /\ calls' = calls + 1
    /\ out' = out \o <<DemoLabel>> \o res'.lines
    /\ pc' = IF demo_i' = Len(tests) THEN "closing" ELSE "demo"
    /\ UNCHANGED <<isatty, eof, inp, reads, raw, tok1, tok2>>

\* the three prints that end main()
MainClose ==
    /\ pc = "closing"
    /\ out' = out \o ClosingLines
    /\ pc' = "done"
    /\ UNCHANGED <<isatty, eof, inp, arg, res, reads, calls, demo_i, raw, tok1, tok2>>

Next ==
    \/ MainStart
    \/ InteractiveExit
    \/ InteractiveDiagnose
    \/ InteractiveEOF
    \/ DemoStep
    \/ MainClose

Spec == Init /\ [][Next]_vars

(* ---------------- properties of the session driver ---------------- *)

\* line equals one of the exit keywords when case is ignored
ExitKeyword(line) ==
    \E w \in {<<"e", "x", "i", "t">>, <<"q", "u", "i", "t">>, <<"q">>} :
        /\ Len(w) = Len(line)
        /\ \A i \in 1..Len(w) : LowerChar(line[i]) = LowerChar(w[i])

\* fields is line cut at its commas
CommaFields(fields, line) ==
    /\ Join(fields, ",") = line
    /\ \A i \in 1..Len(fields) : \A j \in 1..Len(fields[i]) : fields[i][j] # ","

\* C7: in an interactive session an exit keyword (case ignored) or end of input
\* ends the loop without a call of diagnose and is followed by the farewell;
\* every other line is split on commas and passed to diagnose exactly once
\* before the next prompt.
C7_InteractiveLoop ==
    [][pc = "interactive" =>
          IF eof' \/ ExitKeyword(inp')
          THEN /\ calls' = calls /\ arg' = arg /\ res' = res
               /\ out' = Append(out, "Goodbye!")
               /\ pc' = "closing"
          ELSE /\ calls' = calls + 1
               /\ CommaFields(arg', inp')
               /\ res' = diagnose(arg')
               /\ out' = out \o res'.lines \o <<"Symptoms> ">>
               /\ pc' = "interactive"]_vars

\* a line was diagnosed and then "EXIT" ended the loop
C7_Witness ==
    /\ pc = "closing"
    /\ isatty
    /\ inp = <<"E", "X", "I", "T">>
    /\ calls = 1
    /\ Len(arg) = 2
    /\ out[Len(out)] = "Goodbye!"

\* the canned cases of the demonstration run, in their listed order
CannedCases == <<
    << <<"f", "e", "v", "e", "r">>, <<"c", "o", "u", "g", "h">> >>,
    << <<"h", "e", "a", "d", "a", "c", "h", "e">>, <<"b", "l", "u", "r", "r", "e", "d", " ", "v", "i", "s", "i", "o", "n">> >>,
    << <<"s", "h", "o", "r", "t", "n", "e", "s", "s", " ", "b", "r", "e", "a", "t", "h">>, <<"w", "h", "e", "e", "z", "i", "n", "g">> >>,
    << <<"a", "b", "d", "o", "m", "i", "n", "a", "l", " ", "p", "a", "i", "n">>, <<"v", "o", "m", "i", "t", "i", "n", "g">> >>,
    << <<"l", "o", "s", "s", "_", "i", "n", "t", "e", "r", "e", "s", "t">>, <<"f", "a", "t", "i", "g", "u", "e">> >>,
    << <<"c", "h", "r", "o", "n", "i", "c", " ", "c", "o", "u", "g", "h">>, <<"w", "e", "i", "g", "h", "t", " ", "l", "o", "s", "s">> >>,
    << <<"r", "e", "d", " ", "e", "y", "e", "s">>, <<"i", "t", "c", "h", "y", " ", "e", "y", "e", "s">> >> >>

\* C8: after diagnose emits EmptySymptomSet or NoMatch the session goes on: the
\* interactive loop issues the next prompt, and the demonstration run proceeds
\* to the next canned case, so that all 7 canned cases are diagnosed in order.
C8_SessionContinues ==
    [][/\ (pc = "interactive" /\ calls' = calls + 1
              /\ res'.signal \in {"No symptoms entered.", "No matching disease found."})
           => (pc' = "interactive" /\ out'[Len(out')] = "Symptoms> ")
       /\ pc = "demo"
           => /\ demo_i < 7
              /\ demo_i' = demo_i + 1
              /\ calls' = demo_i'
              /\ arg' = CannedCases[demo_i']
              /\ res' = diagnose(arg')
              /\ pc' = IF demo_i' = 7 THEN "closing" ELSE "demo"]_vars

\* two signals in a row in an interactive session, and the prompt is up again
C8_Witness ==
    /\ pc = "interactive"
    /\ calls = 2
    /\ inp = <<" ", "e", "x", "i", "t">>
    /\ res.signal = "No matching disease found."
    /\ \E i \in 1..Len(out) : out[i] = "No symptoms entered."
    /\ out[Len(out)] = "Symptoms> "

Contains(lst, x) == \E i \in 1..Len(lst) : lst[i] = x

Occurrences(lst, x) == Cardinality({i \in 1..Len(lst) : lst[i] = x})

DiagnosisOutput == {"No symptoms entered.", "No matching disease found.",
                    "Likely diagnoses:", "rule", "result"}

\* C9: a run of main first prints the list of known symptoms, is interactive
\* exactly when stdin is a terminal and a demonstration otherwise, and when the
\* mode is over prints the three closing lines in order as its last output.
C9_MainRun ==
    /\ pc # "main" =>
           /\ Len(out) >= 2 /\ out[1] = "Available symptoms:" /\ out[2] = "ALL_SYMPTOMS"
           /\ \A i \in 1..2 : out[i] \notin DiagnosisOutput
    /\ pc = "interactive" => isatty
    /\ pc = "demo" => ~isatty
    /\ pc \in {"closing", "done"} =>
           /\ isatty <=> (Contains(out, "Symptoms> ") /\ Contains(out, "Goodbye!"))
           /\ ~isatty <=> Contains(out, "Demo: ")
    /\ pc # "done" =>
           \A i \in 1..3 : ~Contains(out, ClosingLines[i])
    /\ pc = "done" =>
           /\ Len(out) >= 3
           /\ out[Len(out) - 2] = "This is an AI-based suggestion only."
           /\ out[Len(out) - 1] = "Please consult a certified doctor in real life."
           /\ out[Len(out)] = "Thank you for using the system. Stay healthy!"
           /\ \A i \in 1..3 : Occurrences(out, ClosingLines[i]) = 1
           /\ ~ENABLED Next

\* an interactive run that diagnosed a line and has ended
C9_Witness ==
    /\ pc = "done"
    /\ isatty
    /\ calls = 1
    /\ Contains(out, "result")
    /\ out[Len(out)] = "Thank you for using the system. Stay healthy!"

====
